---- MODULE Spec2Model ----
(***************************************************************************)
(* Shuffled binary search (binsearchshuffle.c): the in-place shuffle of a  *)
(* sorted int array, its inverse, the forward-only search, the index       *)
(* translation and the insert / remove operations built from them.         *)
(*                                                                         *)
(* A C array is a TLA+ sequence: C index i is sequence index i+1.  The     *)
(* variable array holds the slots [0,count) of the caller's storage; no    *)
(* function reads a slot at or beyond its count argument before writing    *)
(* it, so the slots past count are not kept between calls.                 *)
(***************************************************************************)
EXTENDS Integers, Sequences, FiniteSets, TLC

VARIABLES array, count, layout, pc, locals, op, arg, ret, given, orig

vars == <<array, count, layout, pc, locals, op, arg, ret, given, orig>>

\* ---- bounds of the model ------------------------------------------------
MaxVal == 8         \* Spec: keys and elements are 0..MaxVal
MaxBlock == 20      \* SpecTransform: arrays of 0..MaxBlock elements
MaxAnyCount == 5    \* SpecSearch: arrays of 0..MaxAnyCount arbitrary elements
MaxAnyVal == 2      \* SpecSearch: elements and keys are 0..MaxAnyVal

\* ---- program constant ---------------------------------------------------
MAX_SHUFFLE_COUNT_LOG2 == 64

\* ---- array primitives ---------------------------------------------------
At(a, i) == a[i + 1]

Put(a, i, v) == [a EXCEPT ![i + 1] = v]

\* tmp = a[i]; a[i] = a[j]; a[j] = tmp
Swap(a, i, j) == [a EXCEPT ![i + 1] = a[j + 1], ![j + 1] = a[i + 1]]

\* shift(x, y, z):  tmp = a[y]; a[y] = a[x]; a[x] = a[z]; a[z] = tmp
Shift3(a, x, y, z) ==
    [a EXCEPT ![y + 1] = a[x + 1], ![x + 1] = a[z + 1], ![z + 1] = a[y + 1]]

\* memmove(&a[dst], &a[src], len * sizeof(int)): overlap-safe copy
MemMove(a, dst, src, len) ==
    [j \in DOMAIN a |->
        IF j - 1 >= dst /\ j - 1 < dst + len THEN a[j - 1 - dst + src + 1]
        ELSE a[j]]

\* ---- ShuffleSortedArray -------------------------------------------------
\* A frame is [array, first, count, aStack, fault]; aStack holds the stk
\* live entries, so stk is Len(aStack).
NewFrame(a, n) ==
    [array |-> a, first |-> 0, count |-> n, aStack |-> <<>>, fault |-> "none"]

\* while (count>1 || stk)
LoopCond(f) == f.fault = "none" /\ (f.count > 1 \/ Len(f.aStack) # 0)

\* Pop with the test written count<=2: a block of two is taken for a finished one
PopAtTwo(f) ==
    IF f.count <= 2
    THEN IF Len(f.aStack) = 0
         THEN [f EXCEPT !.fault = "underflow"]
         ELSE [f EXCEPT !.first = f.aStack[Len(f.aStack)].first,
                        !.count = f.aStack[Len(f.aStack)].count,
                        !.aStack = SubSeq(f.aStack, 1, Len(f.aStack) - 1)]
    ELSE f

\* if (count<=1) { stk--; first = aStack[stk].first; count = aStack[stk].count; }
Pop(f) ==
    IF f.count <= 1
    THEN IF Len(f.aStack) = 0
         THEN [f EXCEPT !.fault = "underflow"]
         ELSE [f EXCEPT !.first = f.aStack[Len(f.aStack)].first,
                        !.count = f.aStack[Len(f.aStack)].count,
                        !.aStack = SubSeq(f.aStack, 1, Len(f.aStack) - 1)]
    ELSE f

\* aStack[stk] = {newFirst, newCount}; stk++
Push(f, newFirst, newCount) ==
    IF Len(f.aStack) >= MAX_SHUFFLE_COUNT_LOG2
    THEN [f EXCEPT !.fault = "overflow"]
    ELSE [f EXCEPT !.aStack = Append(f.aStack, [first |-> newFirst, count |-> newCount])]

\* default: rotate right the first half, push the upper half, go on with the lower
ShuffleDefault(f) ==
    LET half == f.count \div 2
        tmp == At(f.array, f.first + half)
        moved == MemMove(f.array, f.first + 1, f.first, half)
        pushed == Push(f, f.first + 1 + half, (f.count - 1) \div 2)
    IN  IF pushed.fault # "none" THEN pushed
        ELSE [pushed EXCEPT !.array = Put(moved, f.first, tmp),
                            !.first = f.first + 1,
                            !.count = half]

\* ShuffleSwitch whose case 5 lost its second swap (falls into case 4)
ShuffleSwitchFiveAsFour(f) ==
    LET a == f.array
        i == f.first
    IN  CASE f.count \in {2, 3} ->
               [f EXCEPT !.array = Swap(a, i, i + 1), !.count = 0]
          [] f.count \in {4, 5} ->
               [f EXCEPT !.array = Swap(a, i, i + 2), !.count = 0]
          [] f.count \in {6, 7} ->
               [f EXCEPT !.array = Swap(Shift3(a, i + 3, i, i + 2), i + 4, i + 5),
                         !.count = 0]
          [] f.count = 8 ->
               [f EXCEPT !.array = Swap(Swap(Shift3(a, i + 4, i, i + 3), i + 1, i + 2),
                                        i + 5, i + 6),
                         !.count = 0]
          [] OTHER -> ShuffleDefault(f)

\* ShuffleSwitch whose case 6/7 repeats the sort's shift (2,0,3)
ShuffleSwitchSortShift(f) ==
    LET a == f.array
        i == f.first
    IN  CASE f.count \in {2, 3} ->
               [f EXCEPT !.array = Swap(a, i, i + 1), !.count = 0]
          [] f.count = 4 ->
               [f EXCEPT !.array = Swap(a, i, i + 2), !.count = 0]
          [] f.count = 5 ->
               [f EXCEPT !.array = Swap(Swap(a, i, i + 2), i + 3, i + 4), !.count = 0]
          [] f.count \in {6, 7} ->
               [f EXCEPT !.array = Swap(Shift3(a, i + 2, i, i + 3), i + 4, i + 5),
                         !.count = 0]
          [] f.count = 8 ->
               [f EXCEPT !.array = Swap(Swap(Shift3(a, i + 4, i, i + 3), i + 1, i + 2),
                                        i + 5, i + 6),
                         !.count = 0]
          [] OTHER -> ShuffleDefault(f)

\* ShuffleSwitch whose case 6/7 swaps (3,4) where the code swaps (4,5)
ShuffleSwitchSwap34(f) ==
    LET a == f.array
        i == f.first
    IN  CASE f.count \in {2, 3} ->
               [f EXCEPT !.array = Swap(a, i, i + 1), !.count = 0]
          [] f.count = 4 ->
               [f EXCEPT !.array = Swap(a, i, i + 2), !.count = 0]
          [] f.count = 5 ->
               [f EXCEPT !.array = Swap(Swap(a, i, i + 2), i + 3, i + 4), !.count = 0]
          [] f.count \in {6, 7} ->
               [f EXCEPT !.array = Swap(Shift3(a, i + 3, i, i + 2), i + 3, i + 4),
                         !.count = 0]
          [] f.count = 8 ->
               [f EXCEPT !.array = Swap(Swap(Shift3(a, i + 4, i, i + 3), i + 1, i + 2),
                                        i + 5, i + 6),
                         !.count = 0]
          [] OTHER -> ShuffleDefault(f)

\* switch (count)
ShuffleSwitch(f) ==
    LET a == f.array
        i == f.first
    IN  CASE f.count \in {2, 3} ->
               [f EXCEPT !.array = Swap(a, i, i + 1), !.count = 0]
          [] f.count = 4 ->
               [f EXCEPT !.array = Swap(a, i, i + 2), !.count = 0]
          [] f.count = 5 ->
               [f EXCEPT !.array = Swap(Swap(a, i, i + 2), i + 3, i + 4), !.count = 0]
          [] f.count \in {6, 7} ->
               [f EXCEPT !.array = Swap(Shift3(a, i + 3, i, i + 2), i + 4, i + 5),
                         !.count = 0]
          [] f.count = 8 ->
               [f EXCEPT !.array = Swap(Swap(Shift3(a, i + 4, i, i + 3), i + 1, i + 2),
                                        i + 5, i + 6),
                         !.count = 0]
          [] OTHER -> ShuffleDefault(f)

\* one iteration of the while loop
ShuffleIter(f) ==
    LET p == Pop(f)
    IN  IF p.fault # "none" THEN p ELSE ShuffleSwitch(p)

RECURSIVE ShuffleLoop(_)
ShuffleLoop(f) == IF LoopCond(f) THEN ShuffleLoop(ShuffleIter(f)) ELSE f

ShuffleSortedArray(a, n) == ShuffleLoop(NewFrame(a, n)).array

\* count => operations, for the blocks of 8, 9 and 10:
\*   8 => shift (4,0,3) swap(1,2) swap(5,6)
\*   9 => shift (4,0,3) swap(1,2) swap(5,7)
\*  10 => shift (5,0,3) swap(1,2) swap(6,8)
SmallBlockTable(a, i, n) ==
    CASE n = 8  -> Swap(Swap(Shift3(a, i + 4, i, i + 3), i + 1, i + 2), i + 5, i + 6)
      [] n = 9  -> Swap(Swap(Shift3(a, i + 4, i, i + 3), i + 1, i + 2), i + 5, i + 7)
      [] n = 10 -> Swap(Swap(Shift3(a, i + 5, i, i + 3), i + 1, i + 2), i + 6, i + 8)
      [] OTHER  -> a

\* the default case applied to the block of n elements at i, and the loop run
\* on to the end of that block
GeneralBlock(a, i, n) ==
    ShuffleLoop(ShuffleDefault([NewFrame(a, n) EXCEPT !.first = i])).array

\* ---- SortShuffledArray --------------------------------------------------
\* default: rotate left the first half, push the upper half, go on with the lower
SortDefault(f) ==
    LET half == f.count \div 2
        tmp == At(f.array, f.first)
        moved == MemMove(f.array, f.first, f.first + 1, half)
        pushed == Push(f, f.first + 1 + half, (f.count - 1) \div 2)
    IN  IF pushed.fault # "none" THEN pushed
        ELSE [pushed EXCEPT !.array = Put(moved, f.first + half, tmp),
                            !.count = half]

\* SortSwitch whose case 6/7 repeats the shuffle's shift (3,0,2)
SortSwitchShuffleShift(f) ==
    LET a == f.array
        i == f.first
    IN  CASE f.count \in {2, 3} ->
               [f EXCEPT !.array = Swap(a, i, i + 1), !.count = 0]
          [] f.count = 4 ->
               [f EXCEPT !.array = Swap(a, i, i + 2), !.count = 0]
          [] f.count = 5 ->
               [f EXCEPT !.array = Swap(Swap(a, i, i + 2), i + 3, i + 4), !.count = 0]
          [] f.count \in {6, 7} ->
               [f EXCEPT !.array = Swap(Shift3(a, i + 3, i, i + 2), i + 4, i + 5),
                         !.count = 0]
          [] OTHER -> SortDefault(f)

\* switch (count)
SortSwitch(f) ==
    LET a == f.array
        i == f.first
    IN  CASE f.count \in {2, 3} ->
               [f EXCEPT !.array = Swap(a, i, i + 1), !.count = 0]
          [] f.count = 4 ->
               [f EXCEPT !.array = Swap(a, i, i + 2), !.count = 0]
          [] f.count = 5 ->
               [f EXCEPT !.array = Swap(Swap(a, i, i + 2), i + 3, i + 4), !.count = 0]
          [] f.count \in {6, 7} ->
               [f EXCEPT !.array = Swap(Shift3(a, i + 2, i, i + 3), i + 4, i + 5),
                         !.count = 0]
          [] OTHER -> SortDefault(f)

SortIter(f) ==
    LET p == Pop(f)
    IN  IF p.fault # "none" THEN p ELSE SortSwitch(p)

RECURSIVE SortLoop(_)
SortLoop(f) == IF LoopCond(f) THEN SortLoop(SortIter(f)) ELSE f

SortShuffledArray(a, n) == SortLoop(NewFrame(a, n)).array

\* ---- ShuffledBinarySearch -----------------------------------------------
\* index and count are the two locals of the loop; reads lists the indices
\* of shuffled_array that were read, in order; found is the return from
\* inside the loop.
SearchStart(n) == [index |-> 0, count |-> n, found |-> FALSE, reads |-> <<>>]

\* while (count)
SearchCond(s) == ~s.found /\ s.count # 0

\* SearchIter that forgets index++ on the way into the lower block
SearchIterNoAdvance(value, a, s) ==
    LET read == At(a, s.index)
        r == [s EXCEPT !.reads = Append(s.reads, s.index)]
    IN  IF value = read THEN [r EXCEPT !.found = TRUE]
        ELSE IF value > read
             THEN [r EXCEPT !.index = s.index + s.count \div 2 + 1,
                            !.count = (s.count - 1) \div 2]
             ELSE [r EXCEPT !.count = s.count \div 2]

\* SearchIter whose match test reads value<=read
SearchIterLessEqual(value, a, s) ==
    LET read == At(a, s.index)
        r == [s EXCEPT !.reads = Append(s.reads, s.index)]
    IN  IF value <= read THEN [r EXCEPT !.found = TRUE]
        ELSE [r EXCEPT !.index = s.index + s.count \div 2 + 1,
                       !.count = (s.count - 1) \div 2]

\* the loop body
SearchIter(value, a, s) ==
    LET read == At(a, s.index)
        r == [s EXCEPT !.reads = Append(s.reads, s.index)]
    IN  IF value = read THEN [r EXCEPT !.found = TRUE]
        ELSE IF value > read
             THEN [r EXCEPT !.index = s.index + s.count \div 2 + 1,
                            !.count = (s.count - 1) \div 2]
             ELSE [r EXCEPT !.index = s.index + 1,
                            !.count = s.count \div 2]

\* return index;  or, after the loop, return -1;
SearchResult(s) == IF s.found THEN s.index ELSE -1

RECURSIVE SearchLoop(_, _, _)
SearchLoop(value, a, s) ==
    IF SearchCond(s) THEN SearchLoop(value, a, SearchIter(value, a, s)) ELSE s

ShuffledBinarySearch(value, a, n) == SearchResult(SearchLoop(value, a, SearchStart(n)))

\* ---- DeshuffleIndex -----------------------------------------------------
\* DeshuffleIter that forgets d++ on the way into the upper block
DeshuffleIterNoSkip(s) ==
    LET t == IF s.index > s.m
             THEN [s EXCEPT !.index = s.index - (s.m + 1),
                            !.count = (s.count - 1) \div 2]
             ELSE [s EXCEPT !.index = s.index - 1,
                            !.count = s.m,
                            !.d = s.d - s.m]
    IN  [t EXCEPT !.m = t.count \div 2, !.d = t.d + t.count \div 2]

\* the loop body
DeshuffleIter(s) ==
    LET t == IF s.index > s.m
             THEN [s EXCEPT !.index = s.index - (s.m + 1),
                            !.count = (s.count - 1) \div 2,
                            !.d = s.d + 1]
             ELSE [s EXCEPT !.index = s.index - 1,
                            !.count = s.m,
                            !.d = s.d - s.m]
    IN  [t EXCEPT !.m = t.count \div 2, !.d = t.d + t.count \div 2]

RECURSIVE DeshuffleLoop(_)
DeshuffleLoop(s) == IF s.index # 0 THEN DeshuffleLoop(DeshuffleIter(s)) ELSE s

\* DeshuffleIndex whose range check reads index>count
DeshuffleIndexOffByOne(index, n) ==
    IF index < 0 \/ index > n THEN -1
    ELSE DeshuffleLoop([index |-> index, count |-> n,
                        m |-> n \div 2, d |-> n \div 2]).d

DeshuffleIndex(index, n) ==
    IF index < 0 \/ index >= n THEN -1
    ELSE DeshuffleLoop([index |-> index, count |-> n,
                        m |-> n \div 2, d |-> n \div 2]).d

\* ---- RemoveShuffledArrayValue -------------------------------------------
\* RemoveShuffledArrayValue that closes the gap at the shuffled index
RemoveAtShuffledIndex(value, a, n) ==
    LET index == ShuffledBinarySearch(value, a, n)
        sorted == SortShuffledArray(a, n)
        moved == IF index < n - 1
                 THEN MemMove(sorted, index, index + 1, n - 1 - index)
                 ELSE sorted
    IN  IF index >= 0
        THEN [array |-> ShuffleSortedArray(moved, n - 1), count |-> n - 1]
        ELSE [array |-> a, count |-> n]

\* the result is the array storage and the returned count
RemoveShuffledArrayValue(value, a, n) ==
    LET index == ShuffledBinarySearch(value, a, n)
        sorted == SortShuffledArray(a, n)
        deshuf == DeshuffleIndex(index, n)
        moved == IF deshuf < n - 1
                 THEN MemMove(sorted, deshuf, deshuf + 1, n - 1 - deshuf)
                 ELSE sorted
    IN  IF index >= 0
        THEN [array |-> ShuffleSortedArray(moved, n - 1), count |-> n - 1]
        ELSE [array |-> a, count |-> n]

\* ---- InsertShuffledArrayValue -------------------------------------------
\* the slot search: first, end, index and whether the loop was left by break
SlotStart(n) == [first |-> 0, end |-> n, index |-> 0, slot |-> FALSE]

\* while (end!=first)
SlotCond(s) == ~s.slot /\ s.end # s.first

\* SlotIter that takes the first greater element it reads for the slot
SlotIterNoPredecessor(value, a, s) ==
    LET index == (s.first + s.end) \div 2
        read == At(a, index)
    IN  IF read > value
        THEN [s EXCEPT !.index = index, !.slot = TRUE]
        ELSE IF value > read
             THEN [s EXCEPT !.index = index, !.first = index + 1]
             ELSE [s EXCEPT !.index = index, !.end = index]

\* the loop body
SlotIter(value, a, s) ==
    LET index == (s.first + s.end) \div 2
        read == At(a, index)
    IN  IF read > value /\ (index = 0 \/ At(a, index - 1) < value)
        THEN [s EXCEPT !.index = index, !.slot = TRUE]
        ELSE IF value > read
             THEN [s EXCEPT !.index = index, !.first = index + 1]
             ELSE [s EXCEPT !.index = index, !.end = index]

RECURSIVE SlotLoop(_, _, _)
SlotLoop(value, a, s) ==
    IF SlotCond(s) THEN SlotLoop(value, a, SlotIter(value, a, s)) ELSE s

\* a is the storage, with room for one more int after its n elements; the
\* result is the storage and the returned count
InsertShuffledArrayValue(value, a, n) ==
    LET found == ShuffledBinarySearch(value, a, n)
        sorted == SortShuffledArray(a, n)
        s == SlotLoop(value, sorted, SlotStart(n))
        index == IF s.end = s.first THEN n ELSE s.index
        moved == IF s.end = s.first THEN sorted
                 ELSE MemMove(sorted, index + 1, index, n - index)
    IN  IF found < 0
        THEN [array |-> ShuffleSortedArray(Put(moved, index, value), n + 1),
              count |-> n + 1]
        ELSE [array |-> a, count |-> n]

\* ---- state machine ------------------------------------------------------
NoLocals ==
    [first |-> 0, index |-> 0, count |-> 0, aStack |-> <<>>, fault |-> "none",
     reads |-> <<>>, found |-> FALSE]

Frame == [array |-> array, first |-> locals.first, count |-> locals.count,
          aStack |-> locals.aStack, fault |-> locals.fault]

LocalsOf(f) ==
    [NoLocals EXCEPT !.first = f.first, !.count = f.count,
                     !.aStack = f.aStack, !.fault = f.fault]

\* the strictly ascending sequence of length n over 0..n that skips g
OneGap(n, g) == [i \in 1..n |-> IF i - 1 < g THEN i - 1 ELSE i]

InitCommon ==
    /\ count = Len(array)
    /\ layout = "sorted"
    /\ pc = "idle"
    /\ locals = NoLocals
    /\ op = "none"
    /\ arg = -1
    /\ ret = -1
    /\ given = array
    /\ orig = array

InitTransform ==
    /\ array \in {OneGap(n, g) : n \in 0..MaxBlock, g \in 0..MaxBlock}
    /\ InitCommon

ShuffleCall ==
    /\ pc = "idle" /\ layout = "sorted"
    /\ pc' = "shuffle"
    /\ locals' = LocalsOf(NewFrame(array, count))
    /\ op' = "shuffle" /\ arg' = count /\ ret' = -1
    /\ given' = array /\ orig' = array
    /\ UNCHANGED <<array, count, layout>>

ShuffleStep ==
    /\ pc = "shuffle" /\ LoopCond(Frame)
    /\ LET r == ShuffleIter(Frame)
       IN  array' = r.array /\ locals' = LocalsOf(r)
    /\ UNCHANGED <<count, layout, pc, op, arg, ret, given, orig>>

ShuffleReturn ==
    /\ pc = "shuffle" /\ ~LoopCond(Frame)
    /\ pc' = "idle"
    /\ layout' = "shuffled"
    /\ UNCHANGED <<array, count, locals, op, arg, ret, given, orig>>

SortCall ==
    /\ pc = "idle" /\ layout = "shuffled"
    /\ pc' = "sort"
    /\ locals' = LocalsOf(NewFrame(array, count))
    /\ op' = "sort" /\ arg' = count /\ ret' = -1
    /\ given' = array
    /\ UNCHANGED <<array, count, layout, orig>>

SortStep ==
    /\ pc = "sort" /\ LoopCond(Frame)
    /\ LET r == SortIter(Frame)
       IN  array' = r.array /\ locals' = LocalsOf(r)
    /\ UNCHANGED <<count, layout, pc, op, arg, ret, given, orig>>

SortReturn ==
    /\ pc = "sort" /\ ~LoopCond(Frame)
    /\ pc' = "idle"
    /\ layout' = "sorted"
    /\ UNCHANGED <<array, count, locals, op, arg, ret, given, orig>>

NextTransform ==
    \/ ShuffleCall
    \/ ShuffleStep
    \/ ShuffleReturn
    \/ SortCall
    \/ SortStep
    \/ SortReturn

SpecTransform == InitTransform /\ [][NextTransform]_vars

\* ---- search, on arrays of any contents ----------------------------------
Keys == 0..MaxVal

SearchFrame ==
    [index |-> locals.index, count |-> locals.count,
     found |-> locals.found, reads |-> locals.reads]

SearchLocals(s) ==
    [NoLocals EXCEPT !.index = s.index, !.count = s.count,
                     !.found = s.found, !.reads = s.reads]

InitSearch ==
    /\ array \in UNION {[1..n -> 0..MaxAnyVal] : n \in 0..MaxAnyCount}
    /\ count = Len(array)
    /\ layout = "arbitrary"
    /\ pc = "idle"
    /\ locals = NoLocals
    /\ op = "none"
    /\ arg = -1
    /\ ret = -1
    /\ given = array
    /\ orig = <<>>

SearchCall(value) ==
    /\ pc = "idle" /\ layout # "sorted"
    /\ pc' = "search"
    /\ locals' = SearchLocals(SearchStart(count))
    /\ op' = "search" /\ arg' = value /\ ret' = -1
    /\ given' = array
    /\ UNCHANGED <<array, count, layout, orig>>

SearchStep ==
    /\ pc = "search" /\ SearchCond(SearchFrame)
    /\ locals' = SearchLocals(SearchIter(arg, array, SearchFrame))
    /\ UNCHANGED <<array, count, layout, pc, op, arg, ret, given, orig>>

SearchReturn ==
    /\ pc = "search" /\ ~SearchCond(SearchFrame)
    /\ pc' = "idle"
    /\ ret' = SearchResult(SearchFrame)
    /\ UNCHANGED <<array, count, layout, locals, op, arg, given, orig>>

NextSearch ==
    \/ \E value \in Keys : SearchCall(value)
    \/ SearchStep
    \/ SearchReturn

SpecSearch == InitSearch /\ [][NextSearch]_vars

\* ---- the whole interface, on sets of keys --------------------------------
Elems(a) == {a[i] : i \in DOMAIN a}

Min(T) == CHOOSE x \in T : \A y \in T : x <= y

\* the strictly ascending sequence of the elements of T
RECURSIVE SortedSeq(_)
SortedSeq(T) == IF T = {} THEN <<>> ELSE <<Min(T)>> \o SortedSeq(T \ {Min(T)})

Indices == -2..(MaxVal + 3)

Junk == {-1, MaxVal + 1}

Init ==
    /\ array \in {SortedSeq(T) : T \in SUBSET Keys}
    /\ InitCommon

\* index = ShuffledBinarySearch(values[i], shuffled, count);
\* deshuffled_index = DeshuffleIndex(index, count);
Lookup(i) ==
    /\ pc = "idle" /\ layout = "shuffled"
    /\ i < count
    /\ op' = "lookup" /\ arg' = i
    /\ ret' = DeshuffleIndex(ShuffledBinarySearch(orig[i + 1], array, count), count)
    /\ given' = array
    /\ locals' = NoLocals
    /\ UNCHANGED <<array, count, layout, pc, orig>>

DeshuffleCall(index) ==
    /\ pc = "idle"
    /\ op' = "deshuffle" /\ arg' = index
    /\ ret' = DeshuffleIndex(index, count)
    /\ given' = array
    /\ locals' = NoLocals
    /\ UNCHANGED <<array, count, layout, pc, orig>>

RemoveCall(value) ==
    /\ pc = "idle" /\ layout = "shuffled"
    /\ LET r == RemoveShuffledArrayValue(value, array, count)
       IN  /\ array' = SubSeq(r.array, 1, r.count)
           /\ count' = r.count
           /\ ret' = r.count
    /\ op' = "remove" /\ arg' = value
    /\ given' = array
    /\ orig' = SortedSeq(Elems(orig) \ {value})
    /\ locals' = NoLocals
    /\ UNCHANGED <<layout, pc>>

InsertCall(value, junk) ==
    /\ pc = "idle" /\ layout = "shuffled"
    /\ LET r == InsertShuffledArrayValue(value, Append(array, junk), count)
       IN  /\ array' = SubSeq(r.array, 1, r.count)
           /\ count' = r.count
           /\ ret' = r.count
    /\ op' = "insert" /\ arg' = value
    /\ given' = array
    /\ orig' = SortedSeq(Elems(orig) \cup {value})
    /\ locals' = NoLocals
    /\ UNCHANGED <<layout, pc>>

Next ==
    \/ ShuffleCall
    \/ ShuffleStep
    \/ ShuffleReturn
    \/ SortCall
    \/ SortStep
    \/ SortReturn
    \/ \E value \in Keys : SearchCall(value)
    \/ SearchStep
    \/ SearchReturn
    \/ \E i \in 0..MaxVal : Lookup(i)
    \/ \E index \in Indices : DeshuffleCall(index)
    \/ \E value \in Keys : RemoveCall(value)
    \/ \E value \in Keys, junk \in Junk : InsertCall(value, junk)

Spec == Init /\ [][Next]_vars

\* ---- reference notions used by the properties ---------------------------
RECURSIVE CeilLog2(_)
CeilLog2(n) == IF n <= 1 THEN 0 ELSE 1 + CeilLog2((n + 1) \div 2)

\* blk is the median-first layout of the ascending sequence srt; the block
\* splits into 1 + floor(m/2) + upper positions, upper being ceil((m-1)/2)
\* when ceilUpper and floor((m-1)/2) otherwise
RECURSIVE MedianFirst(_, _, _)
MedianFirst(blk, srt, ceilUpper) ==
    LET m == Len(blk)
        h == m \div 2
        u == IF ceilUpper THEN m \div 2 ELSE (m - 1) \div 2
    IN  IF m = 0 THEN Len(srt) = 0
        ELSE /\ Len(srt) = m
             /\ 1 + h + u = m
             /\ blk[1] = srt[h + 1]
             /\ MedianFirst(SubSeq(blk, 2, h + 1), SubSeq(srt, 1, h), ceilUpper)
             /\ MedianFirst(SubSeq(blk, h + 2, h + 1 + u), SubSeq(srt, h + 2, m),
                            ceilUpper)

Shuffled == pc = "idle" /\ op = "shuffle"

Sorted == pc = "idle" /\ op = "sort"

InTransform == pc \in {"shuffle", "sort"}

\* the block the next loop iteration works on
NextBlock == Pop(Frame)

\* ---- C1 ------------------------------------------------------------------
\* C1: once SortShuffledArray has returned, the array equals, element for
\* element, the ascending array that was handed to ShuffleSortedArray.
RoundTrip == Sorted => array = orig

RoundTripWitness ==
    Sorted /\ count >= 18 /\ array = orig /\ given # orig

\* ---- C2 ------------------------------------------------------------------
\* C2: searching the shuffled array for the element of sorted rank i and
\* translating the position found with DeshuffleIndex gives i.
RankRecovered == (pc = "idle" /\ op = "lookup") => ret = arg

RankWitness ==
    /\ pc = "idle" /\ op = "lookup"
    /\ count >= 9
    /\ arg = 7
    /\ ret = arg
    /\ ShuffledBinarySearch(orig[arg + 1], array, count) # arg

\* ---- C4 ------------------------------------------------------------------
\* C4: a search of a shuffled array for a key that is not one of its
\* elements returns -1.
SearchMiss ==
    (pc = "idle" /\ op = "search" /\ layout = "shuffled" /\ arg \notin Elems(array))
        => ret = -1

SearchMissWitness ==
    /\ pc = "idle" /\ op = "search" /\ layout = "shuffled"
    /\ arg \notin Elems(array)
    /\ count = 8
    /\ Len(locals.reads) >= 3
    /\ ret = -1

\* ---- C5 ------------------------------------------------------------------
\* C5: in a search of an array of any contents every index read is inside
\* [0,count) and greater than every index read before it.
ForwardOnly ==
    \A i \in 1..Len(locals.reads) :
        /\ 0 <= locals.reads[i] /\ locals.reads[i] < count
        /\ \A j \in 1..(i - 1) : locals.reads[j] < locals.reads[i]

ForwardWitness ==
    /\ pc = "search"
    /\ Len(locals.reads) >= 3
    /\ locals.reads[2] > locals.reads[1] + 1
    /\ locals.reads[3] = locals.reads[2] + 1

\* ---- C6 ------------------------------------------------------------------
\* C6: InsertShuffledArrayValue(k) on the shuffle of S returns |S u {k}| and
\* leaves that many slots equal to the shuffle of sorted(S u {k}); with k in
\* S the count and the array are as given, with k absent the count is n+1.
InsertMatchesSet ==
    (pc = "idle" /\ op = "insert") =>
        LET S == Elems(given)
            U == S \cup {arg}
        IN  /\ ret = Cardinality(U)
            /\ count = ret
            /\ array = ShuffleSortedArray(SortedSeq(U), Cardinality(U))
            /\ arg \in S => (ret = Len(given) /\ array = given)
            /\ arg \notin S => ret = Len(given) + 1

InsertWitness ==
    /\ pc = "idle" /\ op = "insert"
    /\ arg \notin Elems(given)
    /\ Len(given) = 8
    /\ ret = 9
    /\ arg < given[1]
    /\ array = ShuffleSortedArray(SortedSeq(Elems(given) \cup {arg}), 9)

\* ---- C7 ------------------------------------------------------------------
\* C7: RemoveShuffledArrayValue(k) on the shuffle of S returns |S \ {k}| and
\* leaves that many slots equal to the shuffle of sorted(S \ {k}); with k
\* absent the count and the array are as given, with k in S the count is n-1.
RemoveMatchesSet ==
    (pc = "idle" /\ op = "remove") =>
        LET S == Elems(given)
            D == S \ {arg}
        IN  /\ ret = Cardinality(D)
            /\ count = ret
            /\ array = ShuffleSortedArray(SortedSeq(D), Cardinality(D))
            /\ arg \notin S => (ret = Len(given) /\ array = given)
            /\ arg \in S => ret = Len(given) - 1

RemoveWitness ==
    /\ pc = "idle" /\ op = "remove"
    /\ arg \in Elems(given)
    /\ Len(given) = 9
    /\ ret = 8
    /\ arg # given[1]
    /\ array = ShuffleSortedArray(SortedSeq(Elems(given) \ {arg}), 8)

\* ---- C8 ------------------------------------------------------------------
\* C8: DeshuffleIndex of an index outside [0,count), -1 and count included,
\* returns -1.
InvalidPosition ==
    (pc = "idle" /\ op = "deshuffle" /\ (arg < 0 \/ arg >= count)) => ret = -1

InvalidWitness ==
    /\ pc = "idle" /\ op = "deshuffle"
    /\ layout = "shuffled"
    /\ count >= 9
    /\ arg = count
    /\ ret = -1

\* ---- C3 ------------------------------------------------------------------
\* C3 (as stated): after ShuffleSortedArray every block of length m holds its
\* median first, then floor(m/2) positions with the layout of the elements
\* below it, then ceil((m-1)/2) positions with the layout of those above.
LayoutCeilUpper == Shuffled => MedianFirst(array, orig, TRUE)

\* C3 (amended): after ShuffleSortedArray every block of length m holds its
\* median first, then floor(m/2) positions with the layout of the elements
\* below it, then the remaining floor((m-1)/2) positions with the layout of
\* those above.
LayoutFloorUpper == Shuffled => MedianFirst(array, orig, FALSE)

LayoutWitness ==
    Shuffled /\ count >= 18 /\ MedianFirst(array, orig, FALSE) /\ array # orig

\* ---- C9 ------------------------------------------------------------------
\* C9: at every step of either transform the work stack holds at most
\* ceil(log2(count))+1 descriptors, fewer than MAX_SHUFFLE_COUNT_LOG2, and
\* it is neither popped when empty nor written past its capacity.
StackBounded ==
    InTransform =>
        /\ Len(locals.aStack) <= CeilLog2(count) + 1
        /\ Len(locals.aStack) < MAX_SHUFFLE_COUNT_LOG2
        /\ locals.fault = "none"

StackWitness ==
    /\ InTransform
    /\ Len(locals.aStack) = 2
    /\ locals.count <= 1
    /\ locals.fault = "none"

\* ---- C10 -----------------------------------------------------------------
\* C10: on a block of 8, 9 or 10 elements about to be shuffled, the tabled
\* permutation and the general step (rotate the lower half, then shuffle the
\* two halves) give the same arrangement.
TableIsGeneralStep ==
    (pc = "shuffle" /\ LoopCond(Frame) /\ NextBlock.count \in {8, 9, 10}) =>
        SmallBlockTable(array, NextBlock.first, NextBlock.count)
            = GeneralBlock(array, NextBlock.first, NextBlock.count)

TableWitness ==
    /\ pc = "shuffle" /\ LoopCond(Frame)
    /\ NextBlock.count = 10
    /\ NextBlock.first > 0
    /\ SmallBlockTable(array, NextBlock.first, 10) = GeneralBlock(array, NextBlock.first, 10)
    /\ SmallBlockTable(array, NextBlock.first, 10) # array

\* ---- C11 -----------------------------------------------------------------
\* a shuffle step is about to work on a block of 6 or 7 elements
SixSevenStep == pc = "shuffle" /\ LoopCond(Frame) /\ NextBlock.count \in {6, 7}

\* the positions of the block at i that neither the 3-cycle nor the swap names
RestUnchanged(i) ==
    \A j \in DOMAIN array :
        j - 1 \notin {i, i + 2, i + 3, i + 4, i + 5} => array'[j] = array[j]

\* C11 (as stated): on a block of 6 or 7 the shuffle step moves the element
\* at position 0 to position 3, the one at 2 to 0 and the one at 3 to 2, and
\* swaps positions 4 and 5.
SixSevenCycle0To3 ==
    [][SixSevenStep =>
        LET i == NextBlock.first
        IN  /\ At(array', i + 3) = At(array, i)
            /\ At(array', i) = At(array, i + 2)
            /\ At(array', i + 2) = At(array, i + 3)
            /\ At(array', i + 4) = At(array, i + 5)
            /\ At(array', i + 5) = At(array, i + 4)
            /\ RestUnchanged(i)]_vars

\* C11 (amended): on a block of 6 or 7 the shuffle step moves the element at
\* position 0 to position 2, the one at 2 to 3 and the one at 3 to 0, and
\* swaps positions 4 and 5; every other position keeps its element.
SixSevenCycle0To2 ==
    [][SixSevenStep =>
        LET i == NextBlock.first
        IN  /\ At(array', i + 2) = At(array, i)
            /\ At(array', i + 3) = At(array, i + 2)
            /\ At(array', i) = At(array, i + 3)
            /\ At(array', i + 4) = At(array, i + 5)
            /\ At(array', i + 5) = At(array, i + 4)
            /\ RestUnchanged(i)]_vars

SixSevenWitness ==
    /\ Shuffled
    /\ count = 7
    /\ array = <<orig[4], orig[2], orig[1], orig[3], orig[6], orig[5], orig[7]>>

====
